---- MODULE Spec2Model ----
(***************************************************************************)
(* World Runes solver: the composition search of solveWorldRunes, with the *)
(* combination generator, the composition validator and the pool filter it *)
(* is built from.  One run of solveWorldRunes is a behaviour: the catalog, *)
(* the two emblems and the config are fixed by Init, and every examined    *)
(* candidate is one step.                                                  *)
(***************************************************************************)
EXTENDS Integers, Sequences, FiniteSets, TLC

VARIABLES
  units,             \* data.ts `units`: the unit catalog, a sequence of Unit records
  regions,           \* data.ts `regions`: the region catalog, a sequence of Region records
  emblem1,           \* argument emblem1
  emblem2,           \* argument emblem2
  config,            \* argument config (SolverConfig)
  pc,                \* position inside solveWorldRunes
  size,              \* loop variable `size`
  checkedCount,      \* local `checkedCount` of the current size
  results,           \* local `results`
  seenCompositions,  \* local `seenCompositions`
  queue,             \* what the current phase has still to do: the iterations of the
                     \* targon loop, or the subsets of the brute-force generator
  validated,         \* number of isValidComposition calls made so far
  enumerated,        \* team sizes whose loop body has been entered
  bruteForced,       \* team sizes whose brute-force phase has been entered
  skippedPrefilter,  \* number of smart-phase candidates that reached isValidComposition
                     \* although they fail the pre-checks
  unlockedIds,       \* ResultsDisplay prop unlockedIds, as a set
  filtered,          \* ResultsDisplay local `filtered`, after the dedup
  unlockSuggestions, \* ResultsDisplay local `unlockSuggestions`
  sortedResults,     \* ResultsDisplay local `sortedResults`
  genItems,          \* generateCombinations argument items
  genSize,           \* generateCombinations argument size
  genMaxResults,     \* generateCombinations argument maxResults
  yielded,           \* what the generator has yielded, in order
  teamUnitsArg,      \* isValidComposition argument teamUnits
  validation         \* what isValidComposition has returned

\* the state of a ResultsDisplay render
displayVars == <<unlockedIds, filtered, unlockSuggestions, sortedResults>>

\* the state of a generateCombinations call made on its own
genVars == <<genItems, genSize, genMaxResults, yielded>>

\* the state of an isValidComposition call made on its own
validatorVars == <<teamUnitsArg, validation>>

vars == <<units, regions, emblem1, emblem2, config, pc, size, checkedCount,
          results, seenCompositions, queue, validated, enumerated, bruteForced,
          skippedPrefilter, displayVars, genVars, validatorVars>>

----------------------------------------------------------------------------
(* Bounds of the model *)

\* largest value the size fields of the config take
MaxTeam == 6

\* smallest value config.minUnits takes
MinTeam == 4

----------------------------------------------------------------------------
(* Generic helpers *)

Min2(a, b) == IF a < b THEN a ELSE b

Max2(a, b) == IF a > b THEN a ELSE b

\* Array.prototype.slice(0, n)
Slice(s, n) == SubSeq(s, 1, Min2(n, Len(s)))

\* Array.prototype.includes
Includes(s, x) == \E i \in DOMAIN s : s[i] = x

RECURSIVE FlattenRange(_, _, _)
\* ss[lo] \o ... \o ss[hi]
FlattenRange(ss, lo, hi) ==
  IF lo > hi THEN <<>>
  ELSE IF lo = hi THEN ss[lo]
  ELSE LET mid == (lo + hi) \div 2
       IN  FlattenRange(ss, lo, mid) \o FlattenRange(ss, mid + 1, hi)

\* concatenation of a sequence of sequences
Flatten(ss) == FlattenRange(ss, 1, Len(ss))

RECURSIVE SumRange(_, _, _)
\* s[lo] + ... + s[hi]
SumRange(s, lo, hi) ==
  IF lo > hi THEN 0
  ELSE IF lo = hi THEN s[lo]
  ELSE LET mid == (lo + hi) \div 2
       IN  SumRange(s, lo, mid) + SumRange(s, mid + 1, hi)

SumSeq(s) == SumRange(s, 1, Len(s))

\* the elements of s at the indices S, in the order of s
AtIndices(s, S) ==
  LET idx == SelectSeq([i \in DOMAIN s |-> i], LAMBDA i : i \in S)
  IN  [n \in DOMAIN idx |-> s[idx[n]]]

----------------------------------------------------------------------------
(* String order.  Array.prototype.sort() without a comparator orders       *)
(* strings by code units; IdOrder lists every unit id of the catalogs, and  *)
(* the token of ResultsDisplay's normalizeId, in that order.               *)

IdOrder == <<"aphelios", "caitlyn", "hecarim", "jinx", "kalista", "khazix", "leona",
             "lulu", "malzahar", "poppy", "targon-1of4", "taric", "teemo", "thresh",
             "vi", "viego", "zeri", "ziggs", "zoe">>

IdRank(id) == CHOOSE i \in DOMAIN IdOrder : IdOrder[i] = id

\* ids.sort(): the id at index i comes to the place behind the ids that are
\* smaller, or equal and earlier in s
SortIds(s) ==
  LET ranks == {<<i, IdRank(s[i])>> : i \in DOMAIN s}
      rank(i) == (CHOOSE r \in ranks : r[1] = i)[2]
      before(j, i) == rank(j) < rank(i) \/ (rank(j) = rank(i) /\ j < i)
      places == {<<Cardinality({j \in DOMAIN s : before(j, i)}) + 1, i>> : i \in DOMAIN s}
  IN  [p \in DOMAIN s |-> s[(CHOOSE pl \in places : pl[1] = p)[2]]]

RECURSIVE JoinRange(_, _, _, _)
\* s[lo], ..., s[hi] with sep between them
JoinRange(s, sep, lo, hi) ==
  IF lo > hi THEN ""
  ELSE IF lo = hi THEN s[lo]
  ELSE LET mid == (lo + hi) \div 2
       IN  JoinRange(s, sep, lo, mid) \o sep \o JoinRange(s, sep, mid + 1, hi)

\* Array.prototype.join(sep)
Join(s, sep) == JoinRange(s, sep, 1, Len(s))

\* variant of compositionKey: the ids joined in team order, the sort left out
compositionKeyUnsorted(teamUnits) ==
  Join([i \in DOMAIN teamUnits |-> teamUnits[i].id], ",")

\* teamUnits.map(u => u.id).sort().join(',')
compositionKey(teamUnits) ==
  Join(SortIds([i \in DOMAIN teamUnits |-> teamUnits[i].id]), ",")

----------------------------------------------------------------------------
(* Catalog access (data.ts) *)

\* regions.find(r => r.id === id): <<r>> when found, <<>> for undefined
getRegionById(id) ==
  LET found == SelectSeq(regions, LAMBDA r : r.id = id)
  IN  IF found = <<>> THEN <<>> ELSE <<Head(found)>>

\* (getRegionById(id)?.requiredUnits || 1); an absent requiredUnits is the
\* record value 0, which `|| 1` treats like undefined
RequiredOr1(id) ==
  LET region == getRegionById(id)
  IN  IF region = <<>> THEN 1
      ELSE IF region[1].requiredUnits = 0 THEN 1
      ELSE region[1].requiredUnits

----------------------------------------------------------------------------
(* generateCombinations *)

RECURSIVE backtrack(_, _, _, _, _)
RECURSIVE backtrackLoop(_, _, _, _, _)
\* variant of backtrack: the subtree is pruned already when the remaining
\* items are just as many as the slots still to fill
backtrackPruneEarly(items, k, current, start, room) ==
  IF room <= 0 THEN <<>>
  ELSE IF Len(current) = k THEN <<current>>
  ELSE IF (Len(items) - start) <= (k - Len(current)) THEN <<>>
  ELSE backtrackLoop(items, k, current, start + 1, room)

\* backtrack(start) with `current` and the budget left (maxResults - count):
\* the subsets it yields, in order
backtrack(items, k, current, start, room) ==
  IF room <= 0 THEN <<>>
  ELSE IF Len(current) = k THEN <<current>>
  ELSE IF (Len(items) - start) < (k - Len(current)) THEN <<>>
  ELSE backtrackLoop(items, k, current, start + 1, room)

\* variant of backtrackLoop: the budget used up by one branch is not taken
\* off for the next
backtrackLoopNoCount(items, k, current, i, room) ==
  IF i > Len(items) \/ room <= 0 THEN <<>>
  ELSE LET sub == backtrack(items, k, Append(current, items[i]), i, room)
       IN  sub \o backtrackLoop(items, k, current, i + 1, room)

\* variant of backtrackLoop: the recursion starts at index i again, not at i + 1
backtrackLoopSameIndex(items, k, current, i, room) ==
  IF i > Len(items) \/ room <= 0 THEN <<>>
  ELSE LET sub == backtrack(items, k, Append(current, items[i]), i - 1, room)
       IN  sub \o backtrackLoop(items, k, current, i + 1, room - Len(sub))

\* the for loop of backtrack from (1-based) index i on
backtrackLoop(items, k, current, i, room) ==
  IF i > Len(items) \/ room <= 0 THEN <<>>
  ELSE LET sub == backtrack(items, k, Append(current, items[i]), i, room)
       IN  sub \o backtrackLoop(items, k, current, i + 1, room - Len(sub))

\* variant of generateCombinations: no early return for size 0
generateCombinationsNoEmpty(items, k, maxResults) ==
  IF k > Len(items) THEN <<>>
  ELSE IF k = Len(items) THEN <<items>>
  ELSE backtrack(items, k, <<>>, 0, maxResults)

\* the whole sequence generateCombinations(items, size, maxResults) yields
generateCombinations(items, k, maxResults) ==
  IF k = 0 THEN << <<>> >>
  ELSE IF k > Len(items) THEN <<>>
  ELSE IF k = Len(items) THEN <<items>>
  ELSE backtrack(items, k, <<>>, 0, maxResults)

----------------------------------------------------------------------------
(* isValidComposition *)

\* occurrences of region in one unit's regions
Occurrences(u, region) == Cardinality({i \in DOMAIN u.regions : u.regions[i] = region})

\* variant of countRegionUnits: the last unit of the list is not counted
countRegionUnitsButLast(teamUnits, region) ==
  SumSeq([i \in 1..(Len(teamUnits) - 1) |-> Occurrences(teamUnits[i], region)])

\* countRegionUnits(units).get(region) || 0
countRegionUnits(teamUnits, region) ==
  SumSeq([i \in DOMAIN teamUnits |-> Occurrences(teamUnits[i], region)])

\* first occurrences, in order: the insertion order of a Map's or Set's keys
Dedup(s) == AtIndices(s, {i \in DOMAIN s : \A j \in 1..(i - 1) : s[j] # s[i]})

\* variant of findCarrier: the first unit, whether or not it carries the region
findCarrierAnyUnit(teamUnits, region) ==
  IF teamUnits = <<>> THEN <<>> ELSE <<Head(teamUnits)>>

\* variant of findCarrier: the last unit that does not carry the region
findCarrierLast(teamUnits, region) ==
  LET lacking == SelectSeq(teamUnits, LAMBDA u : ~Includes(u.regions, region))
  IN  IF lacking = <<>> THEN <<>> ELSE <<lacking[Len(lacking)]>>

\* teamUnits.find(u => !u.regions.includes(region)): <<u>> or <<>>
findCarrier(teamUnits, region) ==
  LET lacking == SelectSeq(teamUnits, LAMBDA u : ~Includes(u.regions, region))
  IN  IF lacking = <<>> THEN <<>> ELSE <<Head(lacking)>>

\* smallest number of active regions a valid composition has
MinActiveRegions == 4

\* variant of isActive: a region the catalog does not define is not skipped
isActiveUndefinedToo(regionId, count) == count >= RequiredOr1(regionId)

\* variant of isActive: every region is taken to require one unit
isActiveAtLeastOne(regionId, count) == getRegionById(regionId) # <<>> /\ count >= 1

\* the body of the activation loop for one region id: a region the catalog
\* does not define is skipped, another is active when its count reaches
\* requiredUnits || 1
isActive(regionId, count) ==
  getRegionById(regionId) # <<>> /\ count >= RequiredOr1(regionId)

isValidComposition(teamUnits, e1, e2) ==
  LET unitForEmblem1 == findCarrier(teamUnits, e1)
      unitForEmblem2 == findCarrier(teamUnits, e2)
      emblemAssignments ==
        << [unitId |-> unitForEmblem1[1].id, region |-> e1],
           [unitId |-> unitForEmblem2[1].id, region |-> e2] >>
      \* regionCounts after both emblems were added
      count(r) == countRegionUnits(teamUnits, r)
                    + (IF r = e1 THEN 1 ELSE 0) + (IF r = e2 THEN 1 ELSE 0)
      allRegionsToCheck ==
        Dedup(Flatten([i \in DOMAIN teamUnits |-> teamUnits[i].regions]) \o <<e1, e2>>)
      activeRegions ==
        SelectSeq(allRegionsToCheck, LAMBDA r : isActive(r, count(r)))
  IN  IF unitForEmblem1 = <<>> \/ unitForEmblem2 = <<>>
      THEN [valid |-> FALSE, activeRegions |-> <<>>, emblemAssignments |-> <<>>]
      ELSE IF Len(activeRegions) < MinActiveRegions
      THEN [valid |-> FALSE, activeRegions |-> activeRegions, emblemAssignments |-> <<>>]
      ELSE [valid |-> TRUE, activeRegions |-> activeRegions,
            emblemAssignments |-> emblemAssignments]

----------------------------------------------------------------------------
(* filterUnits *)

filterUnits(all, cfg) ==
  LET byRequired ==
        IF Len(cfg.requiredUnits) > 0
        THEN SelectSeq(all, LAMBDA u : Includes(cfg.requiredUnits, u.id))
        ELSE all
      byExcluded ==
        IF Len(cfg.excludedUnits) > 0
        THEN SelectSeq(byRequired, LAMBDA u : ~Includes(cfg.excludedUnits, u.id))
        ELSE byRequired
  IN  \* the stable sort on the unlockable flag
      SelectSeq(byExcluded, LAMBDA u : ~u.unlockable)
        \o SelectSeq(byExcluded, LAMBDA u : u.unlockable)

----------------------------------------------------------------------------
(* solveWorldRunes: the values fixed before the size loop *)

\* const filteredUnits = filterUnits(units, config)
filteredUnits == filterUnits(units, config)

\* the helper uniqueUnits: the first unit of every id, in order
uniqueUnits(arr) ==
  AtIndices(arr, {i \in DOMAIN arr : \A j \in 1..(i - 1) : arr[j].id # arr[i].id})

MAX_TOTAL_RESULTS == 2000

\* variant of effectiveMaxUnits: config.maxBoardSize left out
effectiveMaxUnitsNoBoard == Min2(config.maxUnits, Len(filteredUnits))

\* variant of effectiveMaxUnits: the size of the filtered pool left out
effectiveMaxUnitsNoPool == Min2(config.maxUnits, config.maxBoardSize)

effectiveMaxUnits == Min2(Min2(config.maxUnits, config.maxBoardSize), Len(filteredUnits))

getMaxCombinationsForSize(sz) ==
  IF sz <= 2 THEN 10000
  ELSE IF sz <= 3 THEN 5000
  ELSE IF sz <= 4 THEN 2000
  ELSE IF sz <= 5 THEN 50000
  ELSE IF sz <= 6 THEN 20000
  ELSE IF sz <= 7 THEN 5000
  ELSE 2000

\* variant of regionUnits: the sub-pool taken from the whole catalog
regionUnitsOfCatalog(region) == SelectSeq(units, LAMBDA u : Includes(u.regions, region))

\* filteredUnits.filter(u => u.regions.includes(region))
regionUnits(region) == SelectSeq(filteredUnits, LAMBDA u : Includes(u.regions, region))

emblem1Units == regionUnits(emblem1)

emblem2Units == regionUnits(emblem2)

targonUnits == regionUnits("targon")

piltoverUnits == regionUnits("piltover")

yordleUnits == regionUnits("yordle")

shadowIslesUnits == regionUnits("shadow-isles")

voidUnits == regionUnits("void")

----------------------------------------------------------------------------
(* The smart phase of one size.  One iteration of the targon loop builds its *)
(* candidates in the order the four filler loops reach them.  A candidate is *)
(* [team, prefilter]: the unit list handed on, and whether the branch        *)
(* applies the quick pre-checks before the validator.                        *)

need1 == Max2(0, RequiredOr1(emblem1) - 1)

need2 == Max2(0, RequiredOr1(emblem2) - 1)

\* the guard of the smart phase
smartGuard(sz) ==
  /\ sz >= 5
  /\ Len(emblem1Units) >= need1
  /\ Len(emblem2Units) >= need2
  /\ Len(targonUnits) >= 1

emblem1Groups == IF need1 > 0 THEN generateCombinations(emblem1Units, need1, 80) ELSE << <<>> >>

emblem2Groups == IF need2 > 0 THEN generateCombinations(emblem2Units, need2, 80) ELSE << <<>> >>

targonOptions == Slice(targonUnits, 10)

piltoverPairs == generateCombinations(piltoverUnits, 2, 20)

yordlePairs == generateCombinations(yordleUnits, 2, 20)

shadowIslesPairs == generateCombinations(shadowIslesUnits, 2, 20)

voidPairs == generateCombinations(voidUnits, 2, 20)

\* one iteration of a filler loop that builds its teams with uniqueUnits
\* (piltover, yordle, shadow-isles)
uniqueBranch(sz, e1Group, e2Group, targonUnit, pair, prefilter) ==
  LET picked == e1Group \o e2Group \o <<targonUnit>> \o pair
      usedUnitIds == {picked[i].id : i \in DOMAIN picked}
      teamUnits == uniqueUnits(picked)
      remainingUnits == SelectSeq(filteredUnits, LAMBDA u : u.id \notin usedUnitIds)
      fillCombos == generateCombinations(remainingUnits, sz - Len(teamUnits), 50)
  IN  IF Len(teamUnits) = sz THEN << [team |-> teamUnits, prefilter |-> prefilter] >>
      ELSE IF Len(teamUnits) < sz
      THEN [i \in DOMAIN fillCombos |->
             [team |-> uniqueUnits(teamUnits \o fillCombos[i]), prefilter |-> prefilter]]
      ELSE <<>>

\* one iteration of the void loop, which concatenates without uniqueUnits
voidBranch(sz, e1Group, e2Group, targonUnit, pair) ==
  LET teamUnits == e1Group \o e2Group \o <<targonUnit>> \o pair
      usedUnitIds == {teamUnits[i].id : i \in DOMAIN teamUnits}
      remainingUnits == SelectSeq(filteredUnits, LAMBDA u : u.id \notin usedUnitIds)
      fillCombos == generateCombinations(remainingUnits, sz - Len(teamUnits), 50)
  IN  IF Len(teamUnits) = sz THEN << [team |-> teamUnits, prefilter |-> FALSE] >>
      ELSE IF Len(teamUnits) < sz
      THEN [i \in DOMAIN fillCombos |->
             [team |-> teamUnits \o fillCombos[i], prefilter |-> FALSE]]
      ELSE <<>>

\* the body of the targon loop: the four filler loops in their fixed order
targonBody(sz, e1Group, e2Group, targonUnit) ==
  Flatten([i \in DOMAIN Slice(piltoverPairs, 10) |->
       uniqueBranch(sz, e1Group, e2Group, targonUnit, piltoverPairs[i], TRUE)])
  \o Flatten([i \in DOMAIN Slice(yordlePairs, 10) |->
       uniqueBranch(sz, e1Group, e2Group, targonUnit, yordlePairs[i], TRUE)])
  \o Flatten([i \in DOMAIN Slice(shadowIslesPairs, 10) |->
       uniqueBranch(sz, e1Group, e2Group, targonUnit, shadowIslesPairs[i], FALSE)])
  \o Flatten([i \in DOMAIN Slice(voidPairs, 10) |->
       voidBranch(sz, e1Group, e2Group, targonUnit, voidPairs[i])])

\* the iterations of the targon loop, over both emblem-group loops, in order
smartIterations ==
  LET e1Groups == Slice(emblem1Groups, 60)
      e2Groups == Slice(emblem2Groups, 60)
  IN  Flatten([i \in DOMAIN e1Groups |->
        Flatten([j \in DOMAIN e2Groups |->
          [k \in DOMAIN targonOptions |->
            [e1Group |-> e1Groups[i], e2Group |-> e2Groups[j],
             targonUnit |-> targonOptions[k]]]])])

\* the quick pre-checks of the piltover and yordle loops
passesPrefilter(team) ==
  /\ Len(SelectSeq(team, LAMBDA u : Includes(u.regions, emblem1))) + 1 >= RequiredOr1(emblem1)
  /\ Len(SelectSeq(team, LAMBDA u : Includes(u.regions, emblem2))) + 1 >= RequiredOr1(emblem2)
  /\ findCarrier(team, emblem1) # <<>>
  /\ findCarrier(team, emblem2) # <<>>

----------------------------------------------------------------------------
(* The result store and the final sort *)

\* teamUnits.reduce((sum, u) => sum + u.cost, 0)
sumCost(teamUnits) == SumSeq([i \in DOMAIN teamUnits |-> teamUnits[i].cost])

\* the record the smart phase pushes: it sets no totalCost
smartResult(teamUnits, v) ==
  [composition |-> [units |-> teamUnits,
                    emblemAssignments |-> v.emblemAssignments,
                    activeRegions |-> v.activeRegions],
   unitCount |-> Len(teamUnits),
   regionCount |-> Len(v.activeRegions)]

\* the record the brute-force phase pushes
bruteResult(teamUnits, v) ==
  [composition |-> [units |-> teamUnits,
                    emblemAssignments |-> v.emblemAssignments,
                    activeRegions |-> v.activeRegions],
   unitCount |-> Len(teamUnits),
   regionCount |-> Len(v.activeRegions),
   totalCost |-> sumCost(teamUnits)]

\* if (!seenCompositions.has(compositionKey))
isNew(seen, teamUnits) == compositionKey(teamUnits) \notin seen

\* the locals a phase updates: checkedCount, results, seenCompositions, and the
\* count of validator calls
progress == [checkedCount |-> checkedCount, results |-> results,
             seenCompositions |-> seenCompositions, validated |-> validated,
             skippedPrefilter |-> skippedPrefilter]

\* variant of examineSmart: the loop heads do not check the budget
examineSmartNoBudget(sz, st, cand) ==
  [st EXCEPT !.checkedCount = @ + 1, !.validated = @ + 1]

\* one smart-phase candidate: the budget check of the loop heads, the
\* pre-checks, the validator and the insertion
examineSmart(sz, st, cand) ==
  IF st.checkedCount >= getMaxCombinationsForSize(sz) THEN st
  ELSE IF cand.prefilter /\ ~passesPrefilter(cand.team)
  THEN [st EXCEPT !.checkedCount = @ + 1]
  ELSE LET v == isValidComposition(cand.team, emblem1, emblem2)
           sent == [st EXCEPT !.checkedCount = @ + 1,
                              !.validated = @ + 1,
                              !.skippedPrefilter = IF passesPrefilter(cand.team) THEN @ ELSE @ + 1]
       IN  IF v.valid /\ isNew(st.seenCompositions, cand.team)
           THEN [sent EXCEPT
                   !.results = Append(@, smartResult(cand.team, v)),
                   !.seenCompositions = @ \cup {compositionKey(cand.team)}]
           ELSE sent

RECURSIVE examineAll(_, _, _, _, _)
\* the candidates cands[lo..hi] examined in order, from the locals st
examineAll(sz, cands, lo, hi, st) ==
  IF lo > hi THEN st
  ELSE IF lo = hi THEN examineSmart(sz, st, cands[lo])
  ELSE LET mid == (lo + hi) \div 2
           left == examineAll(sz, cands, lo, mid, st)
       IN  \* the left half is settled first (checkedCount is never negative)
           IF left.checkedCount < 0 THEN left
           ELSE examineAll(sz, cands, mid + 1, hi, left)

\* a.totalCost ?? 0
totalCostOr0(r) == IF "totalCost" \in DOMAIN r THEN r.totalCost ELSE 0

\* variant of sortKey: the cost is not compared
sortKeyNoCost(r) == <<r.unitCount, 0, 0 - r.regionCount>>

\* the comparator of the final sort as a key: unitCount, then cost, then
\* regionCount descending
sortKey(r) == <<r.unitCount, totalCostOr0(r), 0 - r.regionCount>>

keyLess(a, b) ==
  \/ a[1] < b[1]
  \/ a[1] = b[1] /\ a[2] < b[2]
  \/ a[1] = b[1] /\ a[2] = b[2] /\ a[3] < b[3]

\* the keys of a set in ascending order: place p holds the key that has p - 1
\* smaller keys
sortKeys(S) ==
  [p \in 1..Cardinality(S) |->
     CHOOSE k \in S : Cardinality({o \in S : keyLess(o, k)}) = p - 1]

\* results.sort(comparator): Array.prototype.sort is stable, so results of
\* equal key keep their order
finalSort(rs) ==
  LET keys == {sortKey(rs[i]) : i \in DOMAIN rs}
      sorted == sortKeys(keys)
  IN  Flatten([i \in DOMAIN sorted |->
                 SelectSeq(rs, LAMBDA r : sortKey(r) = sorted[i])])

----------------------------------------------------------------------------
(* Catalogs and inputs *)

AllRegions ==
  << [id |-> "targon", requiredUnits |-> 1],
     [id |-> "void", requiredUnits |-> 2],
     [id |-> "piltover", requiredUnits |-> 2],
     [id |-> "yordle", requiredUnits |-> 2],
     [id |-> "shadow-isles", requiredUnits |-> 2],
     [id |-> "demacia", requiredUnits |-> 1],
     [id |-> "noxus", requiredUnits |-> 0] >>

AllUnits ==
  << [id |-> "leona", cost |-> 3, regions |-> <<"targon">>, unlockable |-> FALSE],
     [id |-> "caitlyn", cost |-> 1, regions |-> <<"piltover">>, unlockable |-> FALSE],
     [id |-> "malzahar", cost |-> 4, regions |-> <<"void", "shadow-isles">>, unlockable |-> TRUE],
     [id |-> "ziggs", cost |-> 2, regions |-> <<"piltover", "yordle">>, unlockable |-> FALSE],
     [id |-> "teemo", cost |-> 1, regions |-> <<"yordle">>, unlockable |-> FALSE],
     [id |-> "khazix", cost |-> 2, regions |-> <<"void">>, unlockable |-> FALSE],
     [id |-> "thresh", cost |-> 4, regions |-> <<"shadow-isles">>, unlockable |-> FALSE] >>

\* a catalog of fifteen single-region units: three targon units and four
\* each of piltover, yordle and shadow-isles
LargeUnits ==
  << [id |-> "leona", cost |-> 3, regions |-> <<"targon">>, unlockable |-> FALSE],
     [id |-> "taric", cost |-> 2, regions |-> <<"targon">>, unlockable |-> FALSE],
     [id |-> "zoe", cost |-> 1, regions |-> <<"targon">>, unlockable |-> FALSE],
     [id |-> "caitlyn", cost |-> 1, regions |-> <<"piltover">>, unlockable |-> FALSE],
     [id |-> "vi", cost |-> 2, regions |-> <<"piltover">>, unlockable |-> FALSE],
     [id |-> "jinx", cost |-> 3, regions |-> <<"piltover">>, unlockable |-> FALSE],
     [id |-> "zeri", cost |-> 4, regions |-> <<"piltover">>, unlockable |-> FALSE],
     [id |-> "teemo", cost |-> 1, regions |-> <<"yordle">>, unlockable |-> FALSE],
     [id |-> "ziggs", cost |-> 2, regions |-> <<"yordle">>, unlockable |-> FALSE],
     [id |-> "lulu", cost |-> 1, regions |-> <<"yordle">>, unlockable |-> FALSE],
     [id |-> "poppy", cost |-> 3, regions |-> <<"yordle">>, unlockable |-> FALSE],
     [id |-> "thresh", cost |-> 4, regions |-> <<"shadow-isles">>, unlockable |-> FALSE],
     [id |-> "viego", cost |-> 3, regions |-> <<"shadow-isles">>, unlockable |-> FALSE],
     [id |-> "kalista", cost |-> 2, regions |-> <<"shadow-isles">>, unlockable |-> FALSE],
     [id |-> "hecarim", cost |-> 1, regions |-> <<"shadow-isles">>, unlockable |-> FALSE] >>

\* number of regions of the small catalog
FewRegions == 3

RegionCatalogs == {SubSeq(AllRegions, 1, Min2(FewRegions, Len(AllRegions))), AllRegions}

EmblemChoices == {"", "bilgewater", "void", "piltover", "demacia", "noxus"}

RequiredChoices == {<<>>, <<"leona", "caitlyn", "malzahar", "ziggs", "khazix", "thresh", "zoe">>}

ExcludedChoices == {<<>>, <<"thresh">>}

ConfigChoices ==
  [maxBoardSize : 5..MaxTeam, minUnits : MinTeam..MaxTeam, maxUnits : 5..MaxTeam,
   requiredUnits : RequiredChoices, excludedUnits : ExcludedChoices]

----------------------------------------------------------------------------
(* solveWorldRunes as a state machine *)

\* no ResultsDisplay render has happened
displayIdle ==
  /\ unlockedIds = {}
  /\ filtered = <<>>
  /\ unlockSuggestions = <<>>
  /\ sortedResults = <<>>

\* no generateCombinations call is made on its own
genIdle ==
  /\ genItems = <<>>
  /\ genSize = 0
  /\ genMaxResults = 0
  /\ yielded = <<>>

\* the record isValidComposition returns without a carrier
noCarrier == [valid |-> FALSE, activeRegions |-> <<>>, emblemAssignments |-> <<>>]

\* no isValidComposition call is made on its own
validatorIdle ==
  /\ teamUnitsArg = <<>>
  /\ validation = noCarrier

\* the state on entry to solveWorldRunes for one choice of catalog and arguments
InitOver(unitCatalogs, regionCatalogs, emblems1, emblems2, configs) ==
  /\ units \in unitCatalogs
  /\ regions \in regionCatalogs
  /\ emblem1 \in emblems1
  /\ emblem2 \in emblems2
  /\ config \in configs
  /\ pc = "start"
  /\ size = 0
  /\ checkedCount = 0
  /\ results = <<>>
  /\ seenCompositions = {}
  /\ queue = <<>>
  /\ validated = 0
  /\ enumerated = {}
  /\ bruteForced = {}
  /\ skippedPrefilter = 0
  /\ displayIdle
  /\ genIdle
  /\ validatorIdle

Init == InitOver({AllUnits}, RegionCatalogs, EmblemChoices, EmblemChoices, ConfigChoices)

\* variant of emblemsResolve: the second emblem's region is not looked up
emblemsResolveFirstOnly ==
  /\ emblem1 # ""
  /\ emblem2 # ""
  /\ getRegionById(emblem1) # <<>>

\* both emblems are given and resolve to regions of the catalog
emblemsResolve ==
  /\ emblem1 # ""
  /\ emblem2 # ""
  /\ getRegionById(emblem1) # <<>>
  /\ getRegionById(emblem2) # <<>>

\* entry: the two early returns, else the setup before the size loop
Start ==
  /\ pc = "start"
  /\ IF emblemsResolve
     THEN pc' = "loop" /\ size' = config.minUnits
     ELSE pc' = "done" /\ size' = size
  /\ UNCHANGED <<units, regions, emblem1, emblem2, config, checkedCount, results,
                 seenCompositions, queue, validated, enumerated, bruteForced,
                 displayVars, genVars,
                 validatorVars, skippedPrefilter>>

\* the head of the size loop and the start of its body
SizeLoop ==
  /\ pc = "loop"
  /\ IF size <= effectiveMaxUnits /\ Len(results) < MAX_TOTAL_RESULTS
     THEN /\ enumerated' = enumerated \cup {size}
          /\ checkedCount' = 0
          /\ IF smartGuard(size)
             THEN queue' = smartIterations /\ pc' = "smart"
             ELSE queue' = <<>> /\ pc' = "gate"
     ELSE /\ pc' = "sort"
          /\ UNCHANGED <<enumerated, checkedCount, queue>>
  /\ UNCHANGED <<units, regions, emblem1, emblem2, config, size, results,
                 seenCompositions, validated, bruteForced, displayVars, genVars,
                 validatorVars, skippedPrefilter>>

\* one iteration of the targon loop (its four filler loops), or the end of
\* the smart phase
SmartStep ==
  /\ pc = "smart"
  /\ IF queue = <<>> \/ checkedCount >= getMaxCombinationsForSize(size)
     THEN /\ pc' = "gate"
          /\ queue' = <<>>
          /\ UNCHANGED <<checkedCount, results, seenCompositions, validated, skippedPrefilter>>
     ELSE LET it == Head(queue)
              cands == targonBody(size, it.e1Group, it.e2Group, it.targonUnit)
              st == examineAll(size, cands, 1, Len(cands), progress)
          IN  /\ pc' = pc
              /\ queue' = Tail(queue)
              /\ checkedCount' = st.checkedCount
              /\ results' = st.results
              /\ seenCompositions' = st.seenCompositions
              /\ validated' = st.validated
              /\ skippedPrefilter' = st.skippedPrefilter
  /\ UNCHANGED <<units, regions, emblem1, emblem2, config, size, enumerated,
                 bruteForced, displayVars, genVars,
                 validatorVars>>

\* if (results.length < 10)
bruteForceGate == Len(results) < 10

\* the gate of the brute-force phase
BruteGate ==
  /\ pc = "gate"
  /\ IF bruteForceGate
     THEN /\ queue' = generateCombinations(filteredUnits, size,
                        getMaxCombinationsForSize(size) - checkedCount)
          /\ pc' = "brute"
          /\ size' = size
          /\ bruteForced' = bruteForced \cup {size}
     ELSE /\ queue' = <<>>
          /\ pc' = "loop"
          /\ size' = size + 1
          /\ UNCHANGED bruteForced
  /\ UNCHANGED <<units, regions, emblem1, emblem2, config, checkedCount, results,
                 seenCompositions, validated, enumerated, displayVars, genVars,
                 validatorVars, skippedPrefilter>>

\* one subset of the brute-force phase, or its end
BruteStep ==
  /\ pc = "brute"
  /\ IF queue = <<>>
     THEN /\ pc' = "loop"
          /\ size' = size + 1
          /\ UNCHANGED <<queue, checkedCount, results, seenCompositions, validated>>
     ELSE LET teamUnits == Head(queue)
              v == isValidComposition(teamUnits, emblem1, emblem2)
          IN  /\ checkedCount' = checkedCount + 1
              /\ IF \/ Len(results) >= MAX_TOTAL_RESULTS
                    \/ checkedCount + 1 > getMaxCombinationsForSize(size)
                 THEN /\ pc' = "loop"
                      /\ size' = size + 1
                      /\ queue' = <<>>
                      /\ UNCHANGED <<results, seenCompositions, validated>>
                 ELSE /\ pc' = pc
                      /\ size' = size
                      /\ queue' = Tail(queue)
                      /\ validated' = validated + 1
                      /\ IF v.valid /\ isNew(seenCompositions, teamUnits)
                         THEN /\ results' = Append(results, bruteResult(teamUnits, v))
                              /\ seenCompositions' =
                                   seenCompositions \cup {compositionKey(teamUnits)}
                         ELSE UNCHANGED <<results, seenCompositions>>
  /\ UNCHANGED <<units, regions, emblem1, emblem2, config, enumerated, bruteForced,
                 displayVars, genVars,
                 validatorVars, skippedPrefilter>>

\* the final sort and the return
Finish ==
  /\ pc = "sort"
  /\ results' = finalSort(results)
  /\ pc' = "done"
  /\ UNCHANGED <<units, regions, emblem1, emblem2, config, size, checkedCount,
                 seenCompositions, queue, validated, enumerated, bruteForced,
                 displayVars, genVars,
                 validatorVars, skippedPrefilter>>

Next == Start \/ SizeLoop \/ SmartStep \/ BruteGate \/ BruteStep \/ Finish

Spec == Init /\ [][Next]_vars

\* searches that accept many results: the large catalog with sizes 5 to 6, beside
\* searches over the small catalog
InitLarge ==
  \/ InitOver({LargeUnits}, {AllRegions}, {"demacia"}, {"noxus"},
              {[maxBoardSize |-> 6, minUnits |-> 5, maxUnits |-> 6,
                requiredUnits |-> <<>>, excludedUnits |-> <<>>]})
  \/ InitOver({AllUnits}, {AllRegions}, {"void", "piltover"}, {"noxus", "demacia"},
              {[maxBoardSize |-> 6, minUnits |-> 4, maxUnits |-> 6,
                requiredUnits |-> <<>>, excludedUnits |-> <<>>]})

SpecLarge == InitLarge /\ [][Next]_vars

\* a catalog in which every unit carries noxus beside its own region
SharedRegionUnits ==
  << [id |-> "leona", cost |-> 3, regions |-> <<"targon", "noxus">>, unlockable |-> FALSE],
     [id |-> "kalista", cost |-> 2, regions |-> <<"shadow-isles", "noxus">>, unlockable |-> FALSE],
     [id |-> "hecarim", cost |-> 1, regions |-> <<"shadow-isles", "noxus">>, unlockable |-> FALSE],
     [id |-> "khazix", cost |-> 2, regions |-> <<"void", "noxus">>, unlockable |-> FALSE],
     [id |-> "malzahar", cost |-> 4, regions |-> <<"void", "noxus">>, unlockable |-> TRUE],
     [id |-> "jinx", cost |-> 3, regions |-> <<"piltover", "noxus">>, unlockable |-> FALSE] >>

\* searches over that catalog, with an emblem of the shared region or without
InitShared ==
  InitOver({SharedRegionUnits}, {AllRegions}, {"noxus", "demacia"},
           {"demacia", "void", "piltover"}, ConfigChoices)

SpecShared == InitShared /\ [][Next]_vars

\* a region catalog with which no composition reaches four active regions
BareRegions ==
  << [id |-> "targon", requiredUnits |-> 1],
     [id |-> "demacia", requiredUnits |-> 1],
     [id |-> "noxus", requiredUnits |-> 0] >>

\* searches of size 8 over the large catalog that accept nothing: with the
\* whole catalog the smart phase alone meets more candidates than the size's
\* budget, with a unit or two excluded the smart and brute-force phases
\* together do
InitBudget ==
  InitOver({LargeUnits}, {BareRegions}, {"demacia"}, {"noxus"},
           {[maxBoardSize |-> 8, minUnits |-> 8, maxUnits |-> 8,
             requiredUnits |-> <<>>, excludedUnits |-> ex] :
              ex \in {<<>>, <<"kalista", "hecarim">>, <<"zoe">>}})

SpecBudget == InitBudget /\ [][Next]_vars

----------------------------------------------------------------------------
(* ResultsDisplay: the unlock filter, the dedup, the minima and the unlock  *)
(* suggestions                                                             *)

\* u.unlockable && !unlockedSet.has(u.id)
isLocked(u, unlocked) == u.unlockable /\ u.id \notin unlocked

\* r.composition.units.filter(u => u.unlockable && !unlockedSet.has(u.id))
lockedUnits(r, unlocked) ==
  SelectSeq(r.composition.units, LAMBDA u : isLocked(u, unlocked))

\* variant of unlockFilter: nothing is filtered out
unlockFilterKeepAll(rs, unlocked) == rs

\* filtered.filter(r => !r.composition.units.some(u => locked))
unlockFilter(rs, unlocked) ==
  SelectSeq(rs, LAMBDA r : lockedUnits(r, unlocked) = <<>>)

targonSet == {"aphelios", "leona", "zoe", "taric"}

normalizeId(id) == IF id \in targonSet THEN "targon-1of4" ELSE id

\* variant of unitSignature: the ids are not normalized
unitSignaturePlain(r) ==
  Join(SortIds([i \in DOMAIN r.composition.units |-> r.composition.units[i].id]), "|")

\* the normalized ids, sorted and joined with '|'
unitSignature(r) ==
  Join(SortIds([i \in DOMAIN r.composition.units |->
                  normalizeId(r.composition.units[i].id)]), "|")

\* Array.from(dedupMap.values()): the first result of every signature, in
\* insertion order
dedupMapValues(rs) ==
  LET sigs == {<<i, unitSignature(rs[i])>> : i \in DOMAIN rs}
      sig(i) == (CHOOSE s \in sigs : s[1] = i)[2]
  IN  AtIndices(rs, {i \in DOMAIN rs : \A j \in 1..(i - 1) : sig(j) # sig(i)})

\* `filtered` after the unlock filter and the dedup
filteredOf(rs, unlocked) == dedupMapValues(unlockFilter(rs, unlocked))

\* rs.length ? Math.min(...rs.map(r => r.unitCount)) : 0
minimalOf(rs) ==
  IF rs = <<>> THEN 0
  ELSE CHOOSE m \in {rs[i].unitCount : i \in DOMAIN rs} :
         \A i \in DOMAIN rs : m <= rs[i].unitCount

\* minimalFiltered > minimalAll
filteredHasHigherMinOf(rs, unlocked) ==
  minimalOf(filteredOf(rs, unlocked)) > minimalOf(rs)

\* results.filter(r => r.unitCount === minimalAll)
minimalAllResults(rs) == SelectSeq(rs, LAMBDA r : r.unitCount = minimalOf(rs))

\* a[k] < b[k] at the first place k where two keys differ
lexLess(a, b) ==
  \E k \in DOMAIN a : a[k] < b[k] /\ \A j \in 1..(k - 1) : a[j] = b[j]

\* the indices 1..n ordered by their keys, equal keys in index order: the
\* index i comes to the place behind the indices of smaller key and the
\* earlier indices of equal key
sortedIndices(n, keys) ==
  LET keyed == {<<i, keys[i]>> : i \in 1..n}
      key(i) == (CHOOSE k \in keyed : k[1] = i)[2]
      before(j, i) == lexLess(key(j), key(i)) \/ (key(j) = key(i) /\ j < i)
      places == {<<Cardinality({j \in 1..n : before(j, i)}) + 1, i>> : i \in 1..n}
  IN  [p \in 1..n |-> (CHOOSE pl \in places : pl[1] = p)[2]]

\* Array.prototype.sort with a comparator that orders by keys[i], the key of
\* rs[i]; the sort is stable
stableSort(rs, keys) ==
  LET order == sortedIndices(Len(rs), keys)
  IN  [i \in DOMAIN rs |-> rs[order[i]]]

\* variant of unlockSuggestionsOf: the locked units of the first result of
\* minimal unitCount, whatever the others need
unlockSuggestionsOfFirst(rs, unlocked) ==
  IF filteredHasHigherMinOf(rs, unlocked) /\ minimalAllResults(rs) # <<>>
  THEN uniqueUnits(lockedUnits(minimalAllResults(rs)[1], unlocked))
  ELSE <<>>

\* variant of unlockSuggestionsOf: only the first locked unit is reported
unlockSuggestionsOfOneUnit(rs, unlocked) ==
  IF filteredHasHigherMinOf(rs, unlocked) /\ minimalAllResults(rs) # <<>>
  THEN LET cands == minimalAllResults(rs)
           sortedByLocked ==
             stableSort(cands, [i \in DOMAIN cands |->
                                  <<Len(lockedUnits(cands[i], unlocked))>>])
       IN  Slice(lockedUnits(sortedByLocked[1], unlocked), 1)
  ELSE <<>>

\* the unlock suggestions: the locked units, each once, of the result of
\* minimal unitCount that has the fewest locked units
unlockSuggestionsOf(rs, unlocked) ==
  IF filteredHasHigherMinOf(rs, unlocked) /\ minimalAllResults(rs) # <<>>
  THEN LET cands == minimalAllResults(rs)
           sortedByLocked ==
             stableSort(cands, [i \in DOMAIN cands |->
                                  <<Len(lockedUnits(cands[i], unlocked))>>])
           bestForUnlocks == sortedByLocked[1]
           lockedNeeded == lockedUnits(bestForUnlocks, unlocked)
       IN  uniqueUnits(lockedNeeded)
  ELSE <<>>

----------------------------------------------------------------------------
(* ResultsDisplay: the base sort and the greedy regrouping *)

\* r.totalCost ?? r.composition.units.reduce((sum, u) => sum + (u.cost || 0), 0)
getTotalCost(r) ==
  IF "totalCost" \in DOMAIN r THEN r.totalCost ELSE sumCost(r.composition.units)

getFourCostCount(r) == Len(SelectSeq(r.composition.units, LAMBDA u : u.cost = 4))

\* the UTF-16 code units of the ids
CharCodes ==
  "aphelios" :> <<97, 112, 104, 101, 108, 105, 111, 115>> @@
  "caitlyn" :> <<99, 97, 105, 116, 108, 121, 110>> @@
  "hecarim" :> <<104, 101, 99, 97, 114, 105, 109>> @@
  "jinx" :> <<106, 105, 110, 120>> @@
  "kalista" :> <<107, 97, 108, 105, 115, 116, 97>> @@
  "khazix" :> <<107, 104, 97, 122, 105, 120>> @@
  "leona" :> <<108, 101, 111, 110, 97>> @@
  "lulu" :> <<108, 117, 108, 117>> @@
  "malzahar" :> <<109, 97, 108, 122, 97, 104, 97, 114>> @@
  "poppy" :> <<112, 111, 112, 112, 121>> @@
  "targon-1of4" :> <<116, 97, 114, 103, 111, 110, 45, 49, 111, 102, 52>> @@
  "taric" :> <<116, 97, 114, 105, 99>> @@
  "teemo" :> <<116, 101, 101, 109, 111>> @@
  "thresh" :> <<116, 104, 114, 101, 115, 104>> @@
  "vi" :> <<118, 105>> @@
  "viego" :> <<118, 105, 101, 103, 111>> @@
  "zeri" :> <<122, 101, 114, 105>> @@
  "ziggs" :> <<122, 105, 103, 103, 115>> @@
  "zoe" :> <<122, 111, 101>> @@
  "|" :> <<124>>

\* the code units of ids.join('|')
joinCodes(ids) ==
  Flatten([i \in 1..(2 * Len(ids) - 1) |->
             IF i % 2 = 1 THEN CharCodes[ids[(i + 1) \div 2]] ELSE CharCodes["|"]])

\* a 32-bit unsigned hash is kept as two 16-bit halves <<high, low>>
HalfWord == 65536

\* (hash * 31 + code) >>> 0
hashStep(hash, code) ==
  LET low == hash[2] * 31 + code
      high == hash[1] * 31 + (low \div HalfWord)
  IN  <<high % HalfWord, low % HalfWord>>

RECURSIVE hashRange(_, _, _, _)
\* the passes of signatureHash's for loop over codes[lo..hi], entered with hash
hashRange(codes, lo, hi, hash) ==
  IF lo > hi THEN hash
  ELSE IF lo = hi THEN hashStep(hash, codes[lo])
  ELSE LET mid == (lo + hi) \div 2
           left == hashRange(codes, lo, mid, hash)
       IN  \* the earlier passes are settled first (a half is never negative)
           IF left[1] < 0 THEN left
           ELSE hashRange(codes, mid + 1, hi, left)

\* the for loop of signatureHash over the code units
hashCodes(codes) == hashRange(codes, 1, Len(codes), <<0, 0>>)

signatureHash(r) ==
  hashCodes(joinCodes(SortIds([i \in DOMAIN r.composition.units |->
                                 r.composition.units[i].id])))

unitIdSet(r) == {r.composition.units[i].id : i \in DOMAIN r.composition.units}

\* variant of symmetricDiffSize: the number of common ids
symmetricDiffSizeCommon(a, b) == Cardinality(a \cap b)

symmetricDiffSize(a, b) == Cardinality(a) + Cardinality(b) - 2 * Cardinality(a \cap b)

\* variant of groupKey: the unitCount alone
groupKeyUnitCountOnly(r) == <<r.unitCount, 0, 0>>

\* the keys the group loop compares: unitCount, total cost, four-cost count
groupKey(r) == <<r.unitCount, getTotalCost(r), getFourCostCount(r)>>

\* variant of baseSorted: nothing is compared, the list comes back reversed
baseSortedReversed(rs) == [i \in DOMAIN rs |-> rs[Len(rs) + 1 - i]]

\* filtered.sort(...): by unitCount, total cost, four-cost count, hash
baseSorted(rs) ==
  stableSort(rs, [i \in DOMAIN rs |-> groupKey(rs[i]) \o signatureHash(rs[i])])

\* one pass of the while loop on <<ordered, remaining>>: the remaining result
\* that differs most from the last ordered one, the first of them on a tie,
\* is moved to `ordered`
greedyPass(st) ==
  LET ordered == st[1]
      remaining == st[2]
      prevSet == unitIdSet(ordered[Len(ordered)])
      diffs == {<<k, symmetricDiffSize(prevSet, unitIdSet(remaining[k]))>> :
                  k \in DOMAIN remaining}
      diff(k) == (CHOOSE d \in diffs : d[1] = k)[2]
      bestIdx == CHOOSE k \in DOMAIN remaining :
                   /\ \A j \in DOMAIN remaining : diff(j) <= diff(k)
                   /\ \A j \in 1..(k - 1) : diff(j) < diff(k)
  IN  <<Append(ordered, remaining[bestIdx]),
        SubSeq(remaining, 1, bestIdx - 1)
          \o SubSeq(remaining, bestIdx + 1, Len(remaining))>>

RECURSIVE greedyPasses(_, _)
\* up to n passes of `while (remaining.length)` on <<ordered, remaining>>
greedyPasses(st, n) ==
  IF n = 0 \/ st[2] = <<>> THEN st
  ELSE IF n = 1 THEN greedyPass(st)
  ELSE greedyPasses(greedyPasses(st, n \div 2), n - n \div 2)

\* while (remaining.length) { ... }: the loop ends when nothing remains
greedyOrder(ordered, remaining) ==
  greedyPasses(<<ordered, remaining>>, Len(remaining))[1]

\* variant of diversify: only the result of lowest hash is kept
diversifyLowestOnly(group) ==
  <<stableSort(group, [i \in DOMAIN group |-> signatureHash(group[i])])[1]>>

\* the reordering of one group
diversify(group) ==
  IF Len(group) <= 1 THEN group
  ELSE LET remaining ==
             stableSort(group, [i \in DOMAIN group |-> signatureHash(group[i])])
       IN  greedyOrder(<<remaining[1]>>, Tail(remaining))

\* the outer while loop: every maximal run of equal group key is reordered.
\* A run starts at index 1 and wherever the group key differs from that of
\* the run before, and it ends before the next start
regrouped(sorted) ==
  LET keyed == {<<i, groupKey(sorted[i])>> : i \in DOMAIN sorted}
      key(i) == (CHOOSE k \in keyed : k[1] = i)[2]
      starts == {i \in DOMAIN sorted : i = 1 \/ key(i) # key(i - 1)}
      endOf(i) == IF \E j \in starts : j > i
                  THEN (CHOOSE j \in starts : j > i /\ \A m \in starts : m > i => j <= m) - 1
                  ELSE Len(sorted)
      runs == AtIndices([i \in DOMAIN sorted |-> i], starts)
  IN  Flatten([g \in DOMAIN runs |-> diversify(SubSeq(sorted, runs[g], endOf(runs[g])))])

\* the base sort followed by the regrouping
rankAndDiversify(rs) == regrouped(baseSorted(rs))

----------------------------------------------------------------------------
(* ResultsDisplay as a state machine: one render of a result list *)

\* the units the rendered results are made of
DisplayUnits ==
  [leona |-> [id |-> "leona", cost |-> 3, regions |-> <<"targon">>, unlockable |-> FALSE],
   aphelios |-> [id |-> "aphelios", cost |-> 3, regions |-> <<"targon">>, unlockable |-> TRUE],
   caitlyn |-> [id |-> "caitlyn", cost |-> 1, regions |-> <<"piltover">>, unlockable |-> FALSE],
   teemo |-> [id |-> "teemo", cost |-> 1, regions |-> <<"yordle">>, unlockable |-> FALSE],
   lulu |-> [id |-> "lulu", cost |-> 1, regions |-> <<"yordle">>, unlockable |-> FALSE],
   hecarim |-> [id |-> "hecarim", cost |-> 1, regions |-> <<"shadow-isles">>, unlockable |-> FALSE],
   malzahar |-> [id |-> "malzahar", cost |-> 4, regions |-> <<"void", "shadow-isles">>,
                 unlockable |-> TRUE],
   khazix |-> [id |-> "khazix", cost |-> 2, regions |-> <<"void">>, unlockable |-> FALSE],
   ziggs |-> [id |-> "ziggs", cost |-> 2, regions |-> <<"piltover", "yordle">>,
              unlockable |-> FALSE]]

\* the validator's part of a rendered result, which the display does not read
shownValidation ==
  [valid |-> TRUE,
   activeRegions |-> <<"targon", "piltover", "yordle", "demacia">>,
   emblemAssignments |-> <<>>]

\* the results a rendered list is drawn from: records of the smart phase
\* (without totalCost) and of the brute-force phase (with it), among them two
\* teams that differ by a targon unit only, teams with one and with two locked
\* units, a team of the void loop that holds one unit twice, and four teams
\* of one unitCount, cost and four-cost count
DisplayPool ==
  LET u == DisplayUnits
  IN  << bruteResult(<<u.leona, u.caitlyn, u.teemo>>, shownValidation),
         bruteResult(<<u.aphelios, u.caitlyn, u.teemo>>, shownValidation),
         smartResult(<<u.leona, u.lulu, u.hecarim>>, shownValidation),
         bruteResult(<<u.leona, u.caitlyn, u.lulu>>, shownValidation),
         bruteResult(<<u.malzahar, u.caitlyn>>, shownValidation),
         bruteResult(<<u.malzahar, u.aphelios>>, shownValidation),
         smartResult(<<u.khazix, u.ziggs>>, shownValidation),
         smartResult(<<u.malzahar, u.malzahar, u.khazix>>, shownValidation),
         bruteResult(<<u.malzahar, u.aphelios, u.khazix>>, shownValidation),
         bruteResult(<<u.leona, u.teemo, u.hecarim>>, shownValidation) >>

\* longest result list rendered
MaxShown == 3

\* five results of the pool: four of one unitCount, cost and four-cost count
\* and one of another
FiveOfPool == {1, 3, 4, 7, 10}

\* the result lists: up to MaxShown different results of the pool, in any
\* order, and four results of FiveOfPool in any order
DisplayResultLists ==
  {[i \in DOMAIN idx |-> DisplayPool[idx[i]]] :
     idx \in {f \in UNION {[1..n -> DOMAIN DisplayPool] : n \in 0..MaxShown}
                      \cup [1..4 -> FiveOfPool] :
                \A i, j \in DOMAIN f : i # j => f[i] # f[j]}}

UnlockedChoices == SUBSET {"aphelios", "malzahar"}

\* a search has returned `results`, which are about to be rendered
InitDisplay ==
  /\ units = AllUnits
  /\ regions = AllRegions
  /\ emblem1 = "demacia"
  /\ emblem2 = "demacia"
  /\ config = [maxBoardSize |-> 6, minUnits |-> 4, maxUnits |-> 6,
               requiredUnits |-> <<>>, excludedUnits |-> <<>>]
  /\ pc = "done"
  /\ size = 0
  /\ checkedCount = 0
  /\ results \in DisplayResultLists
  /\ seenCompositions = {}
  /\ queue = <<>>
  /\ validated = 0
  /\ enumerated = {}
  /\ bruteForced = {}
  /\ skippedPrefilter = 0
  /\ unlockedIds \in UnlockedChoices
  /\ filtered = <<>>
  /\ unlockSuggestions = <<>>
  /\ sortedResults = <<>>
  /\ genIdle
  /\ validatorIdle

\* one render of ResultsDisplay: the early return on an empty list, else the
\* filter, the dedup, the suggestions, the early return on an empty filtered
\* list, else the ranking
Render ==
  /\ pc = "done"
  /\ pc' = "rendered"
  /\ IF results = <<>>
     THEN UNCHANGED <<filtered, unlockSuggestions, sortedResults>>
     ELSE /\ filtered' = filteredOf(results, unlockedIds)
          /\ unlockSuggestions' = unlockSuggestionsOf(results, unlockedIds)
          /\ sortedResults' = IF filtered' = <<>> THEN <<>> ELSE rankAndDiversify(filtered')
  /\ UNCHANGED <<units, regions, emblem1, emblem2, config, size, checkedCount, results,
                 seenCompositions, queue, validated, enumerated, bruteForced,
                 unlockedIds, genVars, validatorVars, skippedPrefilter>>

SpecDisplay == InitDisplay /\ [][Render]_vars

----------------------------------------------------------------------------
(* generateCombinations as a state machine: one call made on its own *)

\* longest item list
MaxItems == 5

\* largest budget
MaxBudget == 11

\* the items; one value occurs twice
GenAlphabet == <<"a", "b", "c", "a", "d", "e", "f">>

GenItemLists == {SubSeq(GenAlphabet, 1, n) : n \in 0..Min2(MaxItems, Len(GenAlphabet))}

\* a call generateCombinations(genItems, genSize, genMaxResults) is about to be made
InitGen ==
  /\ units = AllUnits
  /\ regions = AllRegions
  /\ emblem1 = "demacia"
  /\ emblem2 = "demacia"
  /\ config = [maxBoardSize |-> 6, minUnits |-> 4, maxUnits |-> 6,
               requiredUnits |-> <<>>, excludedUnits |-> <<>>]
  /\ pc = "call"
  /\ size = 0
  /\ checkedCount = 0
  /\ results = <<>>
  /\ seenCompositions = {}
  /\ queue = <<>>
  /\ validated = 0
  /\ enumerated = {}
  /\ bruteForced = {}
  /\ skippedPrefilter = 0
  /\ displayIdle
  /\ genItems \in GenItemLists
  /\ genSize \in 0..(MaxItems + 1)
  /\ genMaxResults \in 0..MaxBudget
  /\ yielded = <<>>
  /\ validatorIdle

\* the generator is run to its end
Generate ==
  /\ pc = "call"
  /\ pc' = "returned"
  /\ yielded' = generateCombinations(genItems, genSize, genMaxResults)
  /\ UNCHANGED <<units, regions, emblem1, emblem2, config, size, checkedCount, results,
                 seenCompositions, queue, validated, enumerated, bruteForced,
                 displayVars, genItems, genSize, genMaxResults, validatorVars, skippedPrefilter>>

SpecGen == InitGen /\ [][Generate]_vars

----------------------------------------------------------------------------
(* isValidComposition as a state machine: one call made on its own *)

\* longest unit list
MaxTeamUnits == 4

\* the units the lists are made of; one carries a region that no catalog defines
ValidatorUnits ==
  << [id |-> "leona", cost |-> 3, regions |-> <<"targon">>, unlockable |-> FALSE],
     [id |-> "ziggs", cost |-> 2, regions |-> <<"piltover", "yordle">>, unlockable |-> FALSE],
     [id |-> "caitlyn", cost |-> 1, regions |-> <<"piltover">>, unlockable |-> FALSE],
     [id |-> "khazix", cost |-> 2, regions |-> <<"void">>, unlockable |-> FALSE],
     [id |-> "fizz", cost |-> 2, regions |-> <<"bilgewater", "yordle">>, unlockable |-> FALSE] >>

\* the unit lists: up to MaxTeamUnits different units, in any order
ValidatorTeams ==
  {[i \in DOMAIN idx |-> ValidatorUnits[idx[i]]] :
     idx \in {f \in UNION {[1..n -> DOMAIN ValidatorUnits] : n \in 0..MaxTeamUnits} :
                \A i, j \in DOMAIN f : i # j => f[i] # f[j]}}

\* the emblem regions; no catalog defines bilgewater
ValidatorEmblems == {"bilgewater", "void", "demacia", "noxus"}

\* a call isValidComposition(teamUnitsArg, emblem1, emblem2) is about to be made
InitValidator ==
  /\ units = AllUnits
  /\ regions \in RegionCatalogs
  /\ emblem1 \in ValidatorEmblems
  /\ emblem2 \in ValidatorEmblems
  /\ config = [maxBoardSize |-> 6, minUnits |-> 4, maxUnits |-> 6,
               requiredUnits |-> <<>>, excludedUnits |-> <<>>]
  /\ pc = "validate"
  /\ size = 0
  /\ checkedCount = 0
  /\ results = <<>>
  /\ seenCompositions = {}
  /\ queue = <<>>
  /\ validated = 0
  /\ enumerated = {}
  /\ bruteForced = {}
  /\ skippedPrefilter = 0
  /\ displayIdle
  /\ genIdle
  /\ teamUnitsArg \in ValidatorTeams
  /\ validation = noCarrier

\* the call is made and returns
Validate ==
  /\ pc = "validate"
  /\ pc' = "validated"
  /\ validation' = isValidComposition(teamUnitsArg, emblem1, emblem2)
  /\ UNCHANGED <<units, regions, emblem1, emblem2, config, size, checkedCount, results,
                 seenCompositions, queue, validated, enumerated, bruteForced,
                 displayVars, genVars, teamUnitsArg, skippedPrefilter>>

SpecValidator == InitValidator /\ [][Validate]_vars

----------------------------------------------------------------------------
(* Properties of the search *)

\* the run has returned
Returned == pc = "done"

\* the unit ids of a team, as a set
idSet(team) == {team[i].id : i \in DOMAIN team}

\* some unit id occurs twice in the team
hasRepeatedId(team) == \E i, j \in DOMAIN team : i < j /\ team[i].id = team[j].id

\* C1: every composition search returns contains each unit id at most once.
C1_UnitIdsUnique ==
  Returned => \A i \in DOMAIN results : ~hasRepeatedId(results[i].composition.units)

\* the contributions to region r counted over the unit list and the two
\* emblem assignments of a composition
contributions(c, r) ==
  Cardinality(UNION {{<<i, j>> : j \in {k \in DOMAIN c.units[i].regions :
                                           c.units[i].regions[k] = r}} :
                     i \in DOMAIN c.units})
    + Cardinality({k \in DOMAIN c.emblemAssignments : c.emblemAssignments[k].region = r})

\* the regions of the catalog a composition activates
activeSet(c) ==
  {regions[n].id : n \in {m \in DOMAIN regions :
     contributions(c, regions[m].id)
       >= (IF regions[m].requiredUnits = 0 THEN 1 ELSE regions[m].requiredUnits)}}

\* the assignment names a unit of the team that lacks the region natively
legalCarrier(c, a) ==
  \E i \in DOMAIN c.units :
    c.units[i].id = a.unitId /\ ~Includes(c.units[i].regions, a.region)

signature(team) == Join(SortIds([i \in DOMAIN team |-> team[i].id]), ",")

\* C3: at every point of a run no two accepted results have the same
\* signature, and the seen set holds exactly the accepted signatures.
C3_NoDuplicateSignature ==
  LET sig == [i \in DOMAIN results |-> signature(results[i].composition.units)]
  IN  /\ \A i, j \in DOMAIN results : i < j => sig[i] # sig[j]
      /\ seenCompositions = {sig[i] : i \in DOMAIN results}

\* the brute-force phase is about to examine a valid team that the smart phase
\* of the same run has accepted already
C3_Witness ==
  /\ pc = "brute"
  /\ queue # <<>>
  /\ isValidComposition(Head(queue), emblem1, emblem2).valid
  /\ signature(Head(queue)) \in seenCompositions
  /\ \E i \in DOMAIN results : "totalCost" \notin DOMAIN results[i]

\* C4: every returned result has minUnits <= unitCount <= min(maxUnits,
\* maxBoardSize), and unitCount is the length of its unit list.
C4_SizeBounds ==
  Returned =>
    \A i \in DOMAIN results :
      /\ config.minUnits <= results[i].unitCount
      /\ results[i].unitCount <= config.maxUnits
      /\ results[i].unitCount <= config.maxBoardSize
      /\ results[i].unitCount = Len(results[i].composition.units)

\* results are returned although the board is smaller than maxUnits, one of
\* them filling the board
C4_Witness ==
  /\ Returned
  /\ config.maxBoardSize < config.maxUnits
  /\ \E i \in DOMAIN results : results[i].unitCount = config.maxBoardSize

\* C5: at every point of a run at most MAX_TOTAL_RESULTS results are accepted.
C5_HardCap == Len(results) <= MAX_TOTAL_RESULTS

\* C6: every returned result carries totalCost, the sum of its units' costs.
C6_TotalCostIsSum ==
  Returned =>
    \A i \in DOMAIN results :
      /\ "totalCost" \in DOMAIN results[i]
      /\ results[i].totalCost = sumCost(results[i].composition.units)

\* an emblem is empty or names no region of the catalog
badEmblem ==
  \/ emblem1 = ""
  \/ emblem2 = ""
  \/ \A n \in DOMAIN regions : regions[n].id # emblem1
  \/ \A n \in DOMAIN regions : regions[n].id # emblem2

\* C7: with an empty or unknown emblem the search returns the empty list and
\* neither enters a team size nor calls the validator.
C7_BadEmblemReturnsEmpty ==
  badEmblem =>
    /\ pc \in {"start", "done"}
    /\ results = <<>>
    /\ validated = 0
    /\ enumerated = {}

\* the search has returned for a known first emblem and an unknown second one
C7_Witness ==
  /\ Returned
  /\ \E n \in DOMAIN regions : regions[n].id = emblem1
  /\ emblem2 # ""
  /\ \A n \in DOMAIN regions : regions[n].id # emblem2

\* C8: with fewer than 4 regions in the catalog the result list is empty.
C8_FewRegionsNoResult ==
  Cardinality({regions[n].id : n \in DOMAIN regions}) < 4 => results = <<>>

\* a search over the small catalog has validated teams whose units carry
\* regions the catalog does not define, and has returned
C8_Witness ==
  /\ Returned
  /\ Len(regions) < 4
  /\ validated > 0
  /\ \E n \in DOMAIN units : \E m \in DOMAIN units[n].regions :
       \A k \in DOMAIN regions : regions[k].id # units[n].regions[m]

\* min(config.maxUnits, config.maxBoardSize, size of the filtered pool)
sizeCap ==
  Min2(Min2(config.maxUnits, config.maxBoardSize), Len(filterUnits(units, config)))

\* C9: no team size above min(maxUnits, maxBoardSize, pool size) is entered,
\* and when minUnits exceeds it nothing is entered or validated and the result
\* is empty.
C9_SizesCapped ==
  /\ \A s \in enumerated : s <= sizeCap
  /\ config.minUnits > sizeCap =>
       enumerated = {} /\ validated = 0 /\ results = <<>>

\* a search with resolvable emblems and minUnits above the board size has
\* returned
C9_Witness ==
  /\ Returned
  /\ ~badEmblem
  /\ config.minUnits > config.maxBoardSize
  /\ config.minUnits <= Len(filterUnits(units, config))

\* C10: every unit of every returned result is in the filtered pool: not
\* excluded, and required when a required list is given.
C10_UnitsFromFilteredPool ==
  Returned =>
    \A i \in DOMAIN results :
      \A n \in DOMAIN results[i].composition.units :
        LET u == results[i].composition.units[n]
        IN  /\ ~Includes(config.excludedUnits, u.id)
            /\ Len(config.requiredUnits) > 0 => Includes(config.requiredUnits, u.id)
            /\ Includes(units, u)

\* results of both phases are returned under a required and an excluded list
C10_Witness ==
  /\ Returned
  /\ Len(config.requiredUnits) > 0
  /\ Len(config.excludedUnits) > 0
  /\ \E i \in DOMAIN results : "totalCost" \in DOMAIN results[i]
  /\ \E i \in DOMAIN results : "totalCost" \notin DOMAIN results[i]

\* the units of pool at the indices S, in pool order
teamAt(pool, S) ==
  LET idx == SelectSeq([i \in DOMAIN pool |-> i], LAMBDA i : i \in S)
  IN  [n \in DOMAIN idx |-> pool[idx[n]]]

\* the 5-unit subsets of the filtered pool that the validator accepts
validFives ==
  {team \in {teamAt(filterUnits(units, config), S) :
               S \in {T \in SUBSET DOMAIN filterUnits(units, config) : Cardinality(T) = 5}} :
     isValidComposition(team, emblem1, emblem2).valid}

\* the team is a returned result of 5 units
foundAsFive(team) ==
  \E i \in DOMAIN results :
    /\ results[i].unitCount = 5
    /\ Len(results[i].composition.units) = 5
    /\ idSet(results[i].composition.units) = idSet(team)

\* the search has returned for resolvable emblems and a size range that holds 5
fiveInRange == Returned /\ ~badEmblem /\ config.minUnits <= 5 /\ 5 <= sizeCap

\* the ids of the catalog's unlockable units
unlockableIds == {units[n].id : n \in {m \in DOMAIN units : units[m].unlockable}}

\* when no result has fewer than 5 units and some valid 5-unit team exists, the
\* first result has 5 units, before and after the display's ranking
fiveRanksFirst ==
  (validFives # {} /\ \A i \in DOMAIN results : results[i].unitCount >= 5) =>
    /\ results # <<>>
    /\ results[1].unitCount = 5
    /\ rankAndDiversify(filteredOf(results, unlockableIds))[1].unitCount = 5

----------------------------------------------------------------------------
(* Properties of the display *)

\* a render has finished
Rendered == pc = "rendered"

\* the result holds a unit that is flagged unlockable and is not unlocked
needsLocked(r) ==
  \E n \in DOMAIN r.composition.units :
    r.composition.units[n].unlockable /\ r.composition.units[n].id \notin unlockedIds

\* the least unitCount of a non-empty list
leastUnitCount(rs) ==
  CHOOSE m \in {rs[i].unitCount : i \in DOMAIN rs} : \A i \in DOMAIN rs : m <= rs[i].unitCount

\* C12: the unlock filter's output has no more results than its input, and the
\* minimum unitCount the code computes for the output is not below the one it
\* computes for the input.
C12_FilterMonotonic ==
  Rendered =>
    /\ Len(filtered) <= Len(results)
    /\ minimalOf(filtered) >= minimalOf(results)

\* the normalized unit ids of a result with their multiplicities: the four
\* targon units count as one token
normalizedBag(r) ==
  LET token(n) == IF r.composition.units[n].id \in {"aphelios", "leona", "zoe", "taric"}
                  THEN "targon-1of4"
                  ELSE r.composition.units[n].id
  IN  [t \in {token(n) : n \in DOMAIN r.composition.units} |->
         Cardinality({n \in DOMAIN r.composition.units : token(n) = t})]

\* C13: no result of the filter's output holds a locked unit, every output
\* result is an input result, and every input result without a locked unit has
\* an output result of the same normalized signature.
C13_FilterExact ==
  Rendered =>
    /\ \A j \in DOMAIN filtered : ~needsLocked(filtered[j])
    /\ \A j \in DOMAIN filtered : Includes(results, filtered[j])
    /\ \A i \in DOMAIN results :
         ~needsLocked(results[i]) =>
           \E j \in DOMAIN filtered : normalizedBag(filtered[j]) = normalizedBag(results[i])

\* a render dropped a result for a locked unit, kept another, and merged an
\* unlocked result into an earlier one of the same normalized signature
C13_Witness ==
  /\ Rendered
  /\ \E i \in DOMAIN results : needsLocked(results[i])
  /\ filtered # <<>>
  /\ \E i \in DOMAIN results :
       ~needsLocked(results[i]) /\ ~Includes(filtered, results[i])

\* no two results of the output have the same normalized signature
outputSignaturesDiffer ==
  \A i, j \in DOMAIN filtered :
    i < j => normalizedBag(filtered[i]) # normalizedBag(filtered[j])

\* the places of the input results that share the normalized signature of
\* results[i]
sameSignature(i) ==
  {j \in DOMAIN results : normalizedBag(results[j]) = normalizedBag(results[i])}

\* of the input places S exactly the first one is kept
onlyFirstKept(S) ==
  \A j \in S : Includes(filtered, results[j]) <=> (\A k \in S : j <= k)

\* C14 as stated: output signatures differ, and of several input results of
\* equal normalized signature exactly the first in input order is kept.
C14_FirstOfSignatureKept ==
  Rendered =>
    /\ outputSignaturesDiffer
    /\ \A i \in DOMAIN results :
         Cardinality(sameSignature(i)) > 1 => onlyFirstKept(sameSignature(i))

\* C14: output signatures differ, and of the input results of equal normalized
\* signature that hold no locked unit exactly the first in input order is
\* kept; those that hold a locked unit are not kept.
C14_FirstUnlockedOfSignatureKept ==
  Rendered =>
    /\ outputSignaturesDiffer
    /\ \A i \in DOMAIN results :
         /\ onlyFirstKept({j \in sameSignature(i) : ~needsLocked(results[j])})
         /\ \A j \in sameSignature(i) :
              needsLocked(results[j]) => ~Includes(filtered, results[j])

\* a render met two results without locked units that differ by a targon unit
\* only, and kept the first of them only
C14_Witness ==
  /\ Rendered
  /\ \E i, j \in DOMAIN results :
       /\ i < j
       /\ results[i] # results[j]
       /\ normalizedBag(results[i]) = normalizedBag(results[j])
       /\ ~needsLocked(results[i])
       /\ ~needsLocked(results[j])
       /\ Includes(filtered, results[i])
       /\ ~Includes(filtered, results[j])

\* the ids of the locked units of a result
lockedIds(r) ==
  {r.composition.units[n].id :
     n \in {m \in DOMAIN r.composition.units :
              r.composition.units[m].unlockable
                /\ r.composition.units[m].id \notin unlockedIds}}

\* the number of locked units in the unit list of a result
lockedCount(r) ==
  Cardinality({m \in DOMAIN r.composition.units :
                 r.composition.units[m].unlockable
                   /\ r.composition.units[m].id \notin unlockedIds})

\* the filtered minimum exceeds the unfiltered one, as the code computes both
higherMin ==
  (IF filtered = <<>> THEN 0 ELSE leastUnitCount(filtered))
    > (IF results = <<>> THEN 0 ELSE leastUnitCount(results))

\* the ids of the suggested units
suggestedIds == {unlockSuggestions[n].id : n \in DOMAIN unlockSuggestions}

\* C15: suggestions are produced exactly when the filtered minimum exceeds the
\* unfiltered one; they are then the locked units, each once, of a result of
\* minimum unitCount than which no result of minimum unitCount has fewer
\* locked units; otherwise there are none.
C15_SuggestionsOfBestMinimal ==
  Rendered =>
    /\ unlockSuggestions # <<>> <=> higherMin
    /\ \A m, n \in DOMAIN unlockSuggestions :
         m # n => unlockSuggestions[m].id # unlockSuggestions[n].id
    /\ higherMin =>
         \E i \in DOMAIN results :
           /\ results[i].unitCount = leastUnitCount(results)
           /\ suggestedIds = lockedIds(results[i])
           /\ \A n \in DOMAIN unlockSuggestions :
                Includes(results[i].composition.units, unlockSuggestions[n])
           /\ \A j \in DOMAIN results :
                results[j].unitCount = leastUnitCount(results)
                  => lockedCount(results[j]) >= lockedCount(results[i])

\* a render suggested the units of a minimal result that is not the first
\* minimal result of the list, because the first one needs more locked units
C15_Witness ==
  /\ Rendered
  /\ higherMin
  /\ unlockSuggestions # <<>>
  /\ \E i, j \in DOMAIN results :
       /\ i < j
       /\ results[i].unitCount = leastUnitCount(results)
       /\ results[j].unitCount = leastUnitCount(results)
       /\ lockedCount(results[i]) > lockedCount(results[j])
       /\ suggestedIds = lockedIds(results[j])
       /\ suggestedIds # lockedIds(results[i])

\* C16: whenever the filtered minimum exceeds the unfiltered one the
\* suggestions are not empty, and the filter applied to the same results with
\* the suggested units unlocked as well has the unfiltered minimum.
C16_SuggestionsRestoreMinimum ==
  (Rendered /\ higherMin) =>
    /\ unlockSuggestions # <<>>
    /\ LET again == filteredOf(results, unlockedIds \cup suggestedIds)
       IN  /\ again # <<>>
           /\ leastUnitCount(again) = leastUnitCount(results)
           /\ minimalOf(again) = minimalOf(results)

\* a render suggested two units at once, and results that hold other locked
\* units stay filtered out after unlocking them
C16_Witness ==
  /\ Rendered
  /\ higherMin
  /\ Cardinality(suggestedIds) = 2
  /\ Len(filteredOf(results, unlockedIds \cup suggestedIds)) > Len(filtered)

\* C17: the ranking applied to its own output gives the same order, for the
\* rendered order and for the ranking of the unfiltered list.
C17_RankingIdempotent ==
  Rendered =>
    /\ rankAndDiversify(sortedResults) = sortedResults
    /\ rankAndDiversify(rankAndDiversify(results)) = rankAndDiversify(results)

\* a render ranked a group of three results of equal unitCount, cost and
\* four-cost count into an order that is neither the input order nor the
\* order of the base sort
C17_Witness ==
  /\ Rendered
  /\ Len(sortedResults) >= 3
  /\ \E i \in DOMAIN sortedResults :
       /\ i + 2 <= Len(sortedResults)
       /\ groupKey(sortedResults[i]) = groupKey(sortedResults[i + 2])
  /\ sortedResults # filtered
  /\ sortedResults # baseSorted(filtered)

\* the ranking key of a result: unitCount, the stored totalCost or else the
\* sum of the unit costs, and the number of units of cost 4
rankKey(r) ==
  <<r.unitCount,
    IF "totalCost" \in DOMAIN r
    THEN r.totalCost
    ELSE SumSeq([n \in DOMAIN r.composition.units |-> r.composition.units[n].cost]),
    Cardinality({n \in DOMAIN r.composition.units : r.composition.units[n].cost = 4})>>

\* key a is not after key b in lexicographic order
keyNotAfter(a, b) ==
  \/ a = b
  \/ \E n \in 1..3 : a[n] < b[n] /\ \A m \in 1..(n - 1) : a[m] = b[m]

\* C26: the rendered order is non-decreasing in the ranking key, and the
\* diversity reordering moves results inside runs of equal key only: place by
\* place the keys are those of the base sort.
C26_RankedByKey ==
  Rendered =>
    /\ \A i, j \in DOMAIN sortedResults :
         i < j => keyNotAfter(rankKey(sortedResults[i]), rankKey(sortedResults[j]))
    /\ Len(sortedResults) = Len(filtered)
    /\ \A i \in DOMAIN sortedResults :
         rankKey(sortedResults[i]) = rankKey(baseSorted(filtered)[i])

\* a render in which the diversity reordering changed the order of the base
\* sort inside a run of three equal keys, next to a result of another key, one
\* of the results having no stored totalCost
C26_Witness ==
  /\ Rendered
  /\ Len(sortedResults) = 4
  /\ sortedResults # baseSorted(filtered)
  /\ \E i, j \in DOMAIN sortedResults :
       rankKey(sortedResults[i]) # rankKey(sortedResults[j])
  /\ \E i \in DOMAIN sortedResults : "totalCost" \notin DOMAIN sortedResults[i]

\* the places of the rendered list that hold the ranking key of place i
runOf(i) ==
  {j \in DOMAIN sortedResults : rankKey(sortedResults[j]) = rankKey(sortedResults[i])}

\* fingerprint a is lower than fingerprint b: the 32-bit values compared by
\* their halves
fingerprintBefore(a, b) == a[1] < b[1] \/ (a[1] = b[1] /\ a[2] < b[2])

\* the fingerprint of the result at place i
fingerprintAt(i) == signatureHash(sortedResults[i])

\* number of unit ids that exactly one of the results at places i and j holds
idDifference(i, j) ==
  LET a == {sortedResults[i].composition.units[n].id :
              n \in DOMAIN sortedResults[i].composition.units}
      b == {sortedResults[j].composition.units[n].id :
              n \in DOMAIN sortedResults[j].composition.units}
  IN  Cardinality((a \ b) \cup (b \ a))

\* C27: in every run of two or more results of equal ranking key the first has
\* the lowest fingerprint of the run, and every later one differs from its
\* predecessor by at least as many unit ids as each result placed after it in
\* the run does, and on equality has the lower fingerprint of the two.
C27_GreedyDiversity ==
  Rendered =>
    \A i \in DOMAIN sortedResults :
      IF \A j \in runOf(i) : i <= j
      THEN \A j \in runOf(i) : ~fingerprintBefore(fingerprintAt(j), fingerprintAt(i))
      ELSE \A j \in runOf(i) :
             j > i =>
               \/ idDifference(i - 1, i) > idDifference(i - 1, j)
               \/ /\ idDifference(i - 1, i) = idDifference(i - 1, j)
                  /\ fingerprintBefore(fingerprintAt(i), fingerprintAt(j))

\* a render placed, in a run of four, a result of higher fingerprint second
\* because it differs more from the first, and chose the last two, which
\* differ equally from the second, by their fingerprints
C27_Witness ==
  /\ Rendered
  /\ runOf(1) = 1..4
  /\ \E j \in 3..4 :
       /\ fingerprintBefore(fingerprintAt(j), fingerprintAt(2))
       /\ idDifference(1, 2) > idDifference(1, j)
  /\ idDifference(2, 3) = idDifference(2, 4)

\* number of places at which the list holds the result
placesOf(rs, r) == Cardinality({i \in DOMAIN rs : rs[i] = r})

\* C30: a render leaves the caller's result list as it was, and the ranked
\* list holds every result of the filtered and de-duplicated list as often as
\* that list does, and no other.
C30_RankingPermutes ==
  [][(pc = "done" /\ pc' = "rendered") =>
       /\ results' = results
       /\ Len(sortedResults') = Len(filtered')
       /\ \A i \in DOMAIN filtered' :
            placesOf(sortedResults', filtered'[i]) = placesOf(filtered', filtered'[i])
       /\ \A i \in DOMAIN sortedResults' : placesOf(filtered', sortedResults'[i]) > 0]_vars

\* a render ranked the results into another order than the filter left them
\* in, after the filter had removed a result
C30_Witness ==
  /\ Rendered
  /\ Len(sortedResults) >= 2
  /\ sortedResults # filtered
  /\ Len(filtered) < Len(results)

----------------------------------------------------------------------------
(* Properties of the generator *)

\* the generator has ended
Generated == pc = "returned"

\* the strictly increasing index tuples of length genSize over genItems
indexTuples ==
  {t \in [1..genSize -> DOMAIN genItems] : \A a, b \in 1..genSize : a < b => t[a] < t[b]}

\* tuple a comes before tuple b in lexicographic order
tupleBefore(a, b) ==
  \E n \in DOMAIN a : a[n] < b[n] /\ \A m \in DOMAIN a : m < n => a[m] = b[m]

\* the i-th index tuple in lexicographic order
nthTuple(i) ==
  CHOOSE t \in indexTuples : Cardinality({o \in indexTuples : tupleBefore(o, t)}) = i - 1

\* C18: for 0 < k < n the generator yields the k-element sublists in the
\* lexicographic order of their index tuples, each once: all of them when the
\* budget is at least their number, else the first maxResults of them.
C18_LexicographicSubsets ==
  (Generated /\ 0 < genSize /\ genSize < Len(genItems)) =>
    /\ Len(yielded) = Min2(genMaxResults, Cardinality(indexTuples))
    /\ \A i \in DOMAIN yielded :
         yielded[i] = [j \in 1..genSize |-> genItems[nthTuple(i)[j]]]

\* all ten pairs of a five-item list, in which one value occurs twice, were
\* yielded
C18_Witness ==
  /\ Generated
  /\ genSize = 2
  /\ Len(genItems) = 5
  /\ \E a, b \in DOMAIN genItems : a # b /\ genItems[a] = genItems[b]
  /\ Len(yielded) = 10

\* C19: for k = 0 exactly one empty subset is yielded, for k > n nothing, and
\* for k = n the whole list exactly once.
C19_ShortCuts ==
  Generated =>
    /\ genSize = 0 => yielded = << <<>> >>
    /\ genSize > Len(genItems) => yielded = <<>>
    /\ genSize = Len(genItems) => yielded = <<genItems>>

\* the whole of a non-empty list was yielded once, under a budget of 0
C19_Witness ==
  /\ Generated
  /\ genSize = Len(genItems)
  /\ genSize >= 2
  /\ genMaxResults = 0
  /\ yielded = <<genItems>>

\* C20 as stated: for every list, size and budget the generator yields at most
\* maxResults subsets.
C20_AtMostBudget == Generated => Len(yielded) <= genMaxResults

\* C20: for 0 < k < n and for k > n the generator yields at most maxResults
\* subsets; for k = 0 and for k = n it yields exactly one subset whatever the
\* budget, a budget of 0 included.
C20_AtMostBudgetPastShortCuts ==
  Generated =>
    IF genSize = 0 \/ genSize = Len(genItems)
    THEN Len(yielded) = 1
    ELSE Len(yielded) <= genMaxResults

\* the generator stopped at its budget with subsets left to yield
C20_Witness ==
  /\ Generated
  /\ 0 < genSize
  /\ genSize < Len(genItems)
  /\ genMaxResults > 0
  /\ genMaxResults < Cardinality(indexTuples)
  /\ Len(yielded) = genMaxResults

----------------------------------------------------------------------------
(* Properties of the validator *)

\* the call has returned
Validated == pc = "validated"

\* some unit of the list does not natively carry the region
someUnitLacks(region) ==
  \E i \in DOMAIN teamUnitsArg :
    \A k \in DOMAIN teamUnitsArg[i].regions : teamUnitsArg[i].regions[k] # region

\* number of units of the list that natively carry the region
nativeCount(region) ==
  Cardinality({i \in DOMAIN teamUnitsArg :
                 \E k \in DOMAIN teamUnitsArg[i].regions : teamUnitsArg[i].regions[k] = region})

\* number of the two emblems whose region it is
emblemCount(region) ==
  (IF emblem1 = region THEN 1 ELSE 0) + (IF emblem2 = region THEN 1 ELSE 0)

\* the ids of the catalog's regions
catalogIds == {regions[i].id : i \in DOMAIN regions}

\* requiredUnits of a catalog region, 1 when the record has none
requirement(region) ==
  LET record == CHOOSE r \in {regions[i] : i \in DOMAIN regions} : r.id = region
  IN  IF record.requiredUnits = 0 THEN 1 ELSE record.requiredUnits

\* the catalog regions whose native count plus emblems reaches the requirement
regionsReached ==
  {r \in catalogIds : nativeCount(r) + emblemCount(r) >= requirement(r)}

\* the regions reported active, as a set
reportedActive == {validation.activeRegions[i] : i \in DOMAIN validation.activeRegions}

\* valid exactly when both emblems have a carrier and four regions are reached
validIffCarriersAndFour ==
  validation.valid <=>
    /\ someUnitLacks(emblem1)
    /\ someUnitLacks(emblem2)
    /\ Cardinality(regionsReached) >= 4

\* C21 as stated: valid exactly when both emblems have a carrier and at least
\* four catalog regions are reached; the reported active regions are exactly
\* the reached regions, and no region absent from the catalog is reported.
C21_ActiveRegionsAlwaysReported ==
  Validated =>
    /\ validIffCarriersAndFour
    /\ reportedActive = regionsReached
    /\ reportedActive \subseteq catalogIds

\* C21: valid exactly when both emblems have a carrier and at least four
\* catalog regions are reached; when both emblems have a carrier the reported
\* active regions are exactly the reached regions, each listed once, and when
\* one has none the reported list is empty; no region absent from the catalog
\* is ever reported.
C21_ValidIffFourRegionsReached ==
  Validated =>
    /\ validIffCarriersAndFour
    /\ IF someUnitLacks(emblem1) /\ someUnitLacks(emblem2)
       THEN /\ reportedActive = regionsReached
            /\ Len(validation.activeRegions) = Cardinality(regionsReached)
       ELSE validation.activeRegions = <<>>
    /\ reportedActive \subseteq catalogIds

\* a list was found valid with exactly four regions reached, one of them by an
\* emblem alone and one with no requiredUnits in its record, while a unit of
\* the list carries a region the catalog does not define
C21_Witness ==
  /\ Validated
  /\ validation.valid
  /\ Cardinality(regionsReached) = 4
  /\ \E r \in regionsReached : nativeCount(r) = 0
  /\ \E r \in regionsReached :
       \E i \in DOMAIN regions : regions[i].id = r /\ regions[i].requiredUnits = 0
  /\ \E i \in DOMAIN teamUnitsArg :
       \E k \in DOMAIN teamUnitsArg[i].regions : teamUnitsArg[i].regions[k] \notin catalogIds

\* the unit at place i does not natively carry the region
lacksAt(i, region) ==
  \A k \in DOMAIN teamUnitsArg[i].regions : teamUnitsArg[i].regions[k] # region

\* the first place of the list whose unit does not natively carry the region
firstLacking(region) ==
  CHOOSE i \in DOMAIN teamUnitsArg :
    lacksAt(i, region) /\ \A j \in DOMAIN teamUnitsArg : j < i => ~lacksAt(j, region)

\* C22: in a valid result emblem1 is assigned to the first unit in input order
\* that lacks emblem1's region and emblem2 to the first unit that lacks
\* emblem2's region, so both go to one unit exactly when one unit is first for
\* both; in an invalid result the assignment list is empty.
C22_FirstLackingCarriers ==
  Validated =>
    IF validation.valid
    THEN /\ Len(validation.emblemAssignments) = 2
         /\ validation.emblemAssignments[1] =
              [unitId |-> teamUnitsArg[firstLacking(emblem1)].id, region |-> emblem1]
         /\ validation.emblemAssignments[2] =
              [unitId |-> teamUnitsArg[firstLacking(emblem2)].id, region |-> emblem2]
         /\ (validation.emblemAssignments[1].unitId = validation.emblemAssignments[2].unitId
               <=> firstLacking(emblem1) = firstLacking(emblem2))
    ELSE validation.emblemAssignments = <<>>

\* a valid list whose first unit carries emblem1's region: emblem1 went to a
\* later unit and emblem2 to the first
C22_Witness ==
  /\ Validated
  /\ validation.valid
  /\ ~lacksAt(1, emblem1)
  /\ firstLacking(emblem1) > 1
  /\ firstLacking(emblem2) = 1
  /\ validation.emblemAssignments[1].unitId # validation.emblemAssignments[2].unitId

\* the orderings of n places
orderings ==
  [n \in 0..MaxTeamUnits |->
     {p \in [1..n -> 1..n] : \A i, j \in 1..n : i # j => p[i] # p[j]}]

\* the list in the order p
reordered(p) == [i \in DOMAIN teamUnitsArg |-> teamUnitsArg[p[i]]]

\* the set of regions a result reports active
activeOf(v) == {v.activeRegions[i] : i \in DOMAIN v.activeRegions}

\* C29: for every reordering of the unit list, with the same emblems, the
\* validity flag and the set of active regions are those of the list itself.
C29_OrderIndependent ==
  Validated =>
    \A p \in orderings[Len(teamUnitsArg)] :
      LET other == isValidComposition(reordered(p), emblem1, emblem2)
      IN  /\ other.valid = validation.valid
          /\ activeOf(other) = activeOf(validation)

\* a valid list of which a reordering has other carriers
C29_Witness ==
  /\ Validated
  /\ validation.valid
  /\ Len(teamUnitsArg) >= 3
  /\ \E p \in orderings[Len(teamUnitsArg)] :
       LET other == isValidComposition(reordered(p), emblem1, emblem2)
       IN  /\ other.valid
           /\ other.emblemAssignments # validation.emblemAssignments

----------------------------------------------------------------------------
(* Properties of the phases *)

\* number of accepted results that the smart phase produced: its records
\* carry no totalCost
smartAccepted ==
  Cardinality({i \in DOMAIN results : "totalCost" \notin DOMAIN results[i]})

\* C23: at the brute-force gate of each size, the brute-force phase is entered
\* whenever the smart phases so far have accepted fewer than 10 results.
C23_BruteForceAfterFewSmartResults ==
  [][(pc = "gate" /\ smartAccepted < 10) => pc' = "brute"]_vars

\* C24: no candidate of the smart phase reaches the validator without passing
\* the pre-checks: enough native units for each emblem's region once the
\* emblem is added, and a legal carrier for each emblem.
C24_OnlyPrefilteredValidated == skippedPrefilter = 0

\* the budget of a team size, from the table
tableBudget(sz) ==
  CASE sz <= 2 -> 10000
    [] sz = 3 -> 5000
    [] sz = 4 -> 2000
    [] sz = 5 -> 50000
    [] sz = 6 -> 20000
    [] sz = 7 -> 5000
    [] OTHER -> 2000

\* a phase of the current size is under way
inPhase == pc \in {"smart", "gate", "brute"}

\* C25: while a size's phases run, the candidates counted for the size (each
\* reaches the pre-checks or the validator) never exceed the size's budget,
\* and the validator is called no more often than candidates are counted; a
\* phase that has used up the budget ends at its next step, the brute-force
\* phase passing to the next size.
C25_BudgetPerSize ==
  [][/\ inPhase' =>
          /\ checkedCount' <= tableBudget(size')
          /\ validated' - validated <= checkedCount' - checkedCount
     /\ (pc = "smart" /\ checkedCount >= tableBudget(size)) => pc' = "gate"
     /\ (pc = "brute" /\ checkedCount >= tableBudget(size)) =>
          (pc' = "loop" /\ size' = size + 1)]_vars

\* after the smart phase of a size has used a part of its budget, the
\* brute-force phase is about to examine the last candidate the budget allows,
\* with more subsets left than it was given
C25_Witness ==
  /\ pc = "brute"
  /\ smartGuard(size)
  /\ Len(queue) = 1
  /\ checkedCount + 1 = tableBudget(size)
  /\ validated = checkedCount
  /\ Len(filteredUnits) > size + 1

----------------------------------------------------------------------------
(* Properties of the returned order *)

\* the stored totalCost of a result, 0 when it has none
storedCost(r) == IF "totalCost" \in DOMAIN r THEN r.totalCost ELSE 0

====
